---- MODULE Spec2Model ----
(***************************************************************************)
(* Student cabinet MVP (FastAPI + SQLite): session manager, student and    *)
(* teacher login, submission upload, grading and file download, modelled   *)
(* from src/app.py with the seed rows of src/db_seed.py.                   *)
(*                                                                         *)
(* Text is modelled as sequences of one-character strings.  Cyrillic       *)
(* letters of the source are written as the tokens "CYR_E", "CYR_K"; the   *)
(* teacher-facing status labels are transliterated (see StatusLabels).     *)
(* Time is counted in seconds, the resolution of every timestamp the code  *)
(* formats ('%Y-%m-%d %H:%M:%S' and "%Y%m%d_%H%M%S").                      *)
(***************************************************************************)
EXTENDS Integers, Sequences, FiniteSets, TLC

VARIABLES
    now,        \* the wall clock, in seconds
    sessions,   \* table sessions: rows [token, user_id, user_type, expires_at]
    issued,     \* how many tokens secrets.token_urlsafe has produced
    resp,       \* the last response of an endpoint that answers in one step
    db,         \* committed tables submissions, submission_files, grades
    disk,       \* paths under storage/submissions that hold bytes
    lock,       \* the request holding SQLite's write lock, or NoRequest
    req,        \* per in-flight request: handler position and locals
    served      \* how many submit / grade requests have passed their checks

vars == <<now, sessions, issued, resp, db, disk, lock, req, served>>

-----------------------------------------------------------------------------
(* Bounds of the model *)

MaxTokens == 3          \* logins explored per behaviour
MaxSeconds == 1         \* one-second clock steps explored inside a window
MaxRequests == 2        \* submit and grade requests explored per behaviour
MaxPathLen == 3         \* length of the download paths enumerated in full

-----------------------------------------------------------------------------
(* Constants of the program *)

SESSION_EXPIRE_HOURS == 24
SecondsPerHour == 3600
MAX_FILE_SIZE == 10485760

SessionWindow == SESSION_EXPIRE_HOURS * SecondsPerHour
MaxTime == SessionWindow + MaxSeconds

-----------------------------------------------------------------------------
(* Characters *)

Digits == {"0", "1", "2", "3", "4", "5", "6", "7", "8", "9"}
AsciiLetters ==
    {"A", "B", "C", "D", "E", "F", "G", "H", "I", "J", "K", "L", "M",
     "N", "O", "P", "Q", "R", "S", "T", "U", "V", "W", "X", "Y", "Z",
     "a", "b", "c", "d", "e", "f", "g", "h", "i", "j", "k", "l", "m",
     "n", "o", "p", "q", "r", "s", "t", "u", "v", "w", "x", "y", "z"}
Whitespace == {" ", "\t", "\n"}

DigitVal(c) ==
    CASE c = "0" -> 0 [] c = "1" -> 1 [] c = "2" -> 2 [] c = "3" -> 3
      [] c = "4" -> 4 [] c = "5" -> 5 [] c = "6" -> 6 [] c = "7" -> 7
      [] c = "8" -> 8 [] c = "9" -> 9

DigitChar(n) ==
    CASE n = 0 -> "0" [] n = 1 -> "1" [] n = 2 -> "2" [] n = 3 -> "3"
      [] n = 4 -> "4" [] n = 5 -> "5" [] n = 6 -> "6" [] n = 7 -> "7"
      [] n = 8 -> "8" [] n = 9 -> "9"

RECURSIVE IntOf(_)
IntOf(s) == IF s = <<>> THEN 0
            ELSE 10 * IntOf(SubSeq(s, 1, Len(s) - 1)) + DigitVal(s[Len(s)])

\* str.strip(): drop leading and trailing whitespace
RECURSIVE LStrip(_)
LStrip(s) == IF s # <<>> /\ Head(s) \in Whitespace THEN LStrip(Tail(s)) ELSE s
RECURSIVE RStrip(_)
RStrip(s) == IF s # <<>> /\ s[Len(s)] \in Whitespace
             THEN RStrip(SubSeq(s, 1, Len(s) - 1)) ELSE s
Strip(s) == RStrip(LStrip(s))

-----------------------------------------------------------------------------
(* validate_id, normalize_birth_date *)

Invalid == "invalid"

\* VALID_ID_PATTERN = ^[A-Za-z0-9\-_]+$
IdChars == AsciiLetters \cup Digits \cup {"-", "_"}
MatchesIdPattern(s) == s # <<>> /\ \A i \in 1..Len(s) : s[i] \in IdChars

\* Invalid stands for HTTPException(400)
validate_id(user_id) ==
    LET id_clean == Strip(user_id)
    IN  IF id_clean = <<>> \/ ~MatchesIdPattern(id_clean) THEN Invalid ELSE id_clean

\* re.sub(r"[^\d]", "", raw)
OnlyDigits(s) == SelectSeq(s, LAMBDA c : c \in Digits)

IsLeap(y) == (y % 4 = 0 /\ y % 100 # 0) \/ y % 400 = 0
DaysInMonth(y, m) ==
    IF m = 2 THEN (IF IsLeap(y) THEN 29 ELSE 28)
    ELSE IF m \in {4, 6, 9, 11} THEN 30 ELSE 31

\* datetime(year, month, day) raises ValueError outside these ranges
ValidDate(y, m, d) ==
    /\ y \in 1..9999
    /\ m \in 1..12
    /\ d >= 1 /\ d <= DaysInMonth(y, m)

Pad2(n) == <<DigitChar(n \div 10), DigitChar(n % 10)>>
Pad4(n) == <<DigitChar(n \div 1000), DigitChar((n \div 100) % 10),
             DigitChar((n \div 10) % 10), DigitChar(n % 10)>>

\* dt.strftime("%Y-%m-%d")
FormatDate(y, m, d) == Pad4(y) \o <<"-">> \o Pad2(m) \o <<"-">> \o Pad2(d)

\* None is returned as Invalid
normalize_birth_date(raw) ==
    IF raw = <<>> THEN Invalid
    ELSE LET ds == OnlyDigits(Strip(raw))
             day == SubSeq(ds, 1, 2)
             month == SubSeq(ds, 3, 4)
             year == IF Len(ds) = 8 THEN SubSeq(ds, 5, 8)
                     ELSE IF IntOf(SubSeq(ds, 5, 6)) <= 25
                          THEN <<"2", "0">> \o SubSeq(ds, 5, 6)
                          ELSE <<"1", "9">> \o SubSeq(ds, 5, 6)
         IN  IF Len(ds) \notin {6, 8} THEN Invalid
             ELSE IF ValidDate(IntOf(year), IntOf(month), IntOf(day))
                  THEN FormatDate(IntOf(year), IntOf(month), IntOf(day))
                  ELSE Invalid

-----------------------------------------------------------------------------
(* Identity store: the rows db_seed.py inserts (ids are AUTOINCREMENT) *)

Str_2023_IS_042 == <<"2", "0", "2", "3", "-", "I", "S", "-", "0", "4", "2">>
Str_2023_IS_043 == <<"2", "0", "2", "3", "-", "I", "S", "-", "0", "4", "3">>
Str_2023_EK_115 == <<"2", "0", "2", "3", "-", "CYR_E", "CYR_K", "-", "1", "1", "5">>
Str_T_MATH_01 == <<"T", "-", "M", "A", "T", "H", "-", "0", "1">>
Str_T_CS_02 == <<"T", "-", "C", "S", "-", "0", "2">>

Date_2001_05_15 == <<"2", "0", "0", "1", "-", "0", "5", "-", "1", "5">>
Date_2002_11_23 == <<"2", "0", "0", "2", "-", "1", "1", "-", "2", "3">>
Date_2000_08_30 == <<"2", "0", "0", "0", "-", "0", "8", "-", "3", "0">>
Date_1975_03_12 == <<"1", "9", "7", "5", "-", "0", "3", "-", "1", "2">>
Date_1982_07_19 == <<"1", "9", "8", "2", "-", "0", "7", "-", "1", "9">>

students ==
    { [id |-> 1, student_id |-> Str_2023_IS_042, birth_date |-> Date_2001_05_15],
      [id |-> 2, student_id |-> Str_2023_IS_043, birth_date |-> Date_2002_11_23],
      [id |-> 3, student_id |-> Str_2023_EK_115, birth_date |-> Date_2000_08_30] }

teachers ==
    { [id |-> 1, teacher_id |-> Str_T_MATH_01, birth_date |-> Date_1975_03_12],
      [id |-> 2, teacher_id |-> Str_T_CS_02, birth_date |-> Date_1982_07_19] }

-----------------------------------------------------------------------------
(* Session manager *)

NoRequest == "none"

\* a purge that compares with the expiry of a session created at t
PurgeOlderThanNew(S, t) == {s \in S : ~(s.expires_at < t + SessionWindow)}

\* DELETE FROM sessions WHERE expires_at < ?
PurgeExpired(S, t) == {s \in S : ~(s.expires_at < t)}

\* a token derived from the numeric key of the user
TokenOfUser(user_id, user_type) == user_id

\* secrets.token_urlsafe(32): a token that was never produced before
NewToken(user_id, user_type) == issued + 1

\* the table after create_session(user_id, user_type) run at time t
create_session(S, user_id, user_type, t) ==
    PurgeExpired(S, t) \cup
        { [token |-> NewToken(user_id, user_type), user_id |-> user_id,
           user_type |-> user_type, expires_at |-> t + SessionWindow] }

\* the same SELECT with expires_at >= ?
SessionRowsInclusive(S, token, t) == {s \in S : s.token = token /\ s.expires_at >= t}

\* SELECT user_id, user_type FROM sessions WHERE token = ? AND expires_at > ?
SessionRows(S, token, t) == {s \in S : s.token = token /\ s.expires_at > t}

EmptyToken == 0

\* a lookup by token alone, without the purge and without the expiry condition
LookupToken(S, token, t) ==
    { <<s.user_id, s.user_type>> : s \in {x \in S : x.token = token} }

\* verify_session(token) at time t: the (user_id, user_type) pairs fetchone()
\* can return; the empty set stands for None
verify_session(S, token, t) ==
    IF token = EmptyToken THEN {}
    ELSE { <<s.user_id, s.user_type>> : s \in SessionRows(PurgeExpired(S, t), token, t) }

\* verify_session without its DELETE
SessionsNotPurged(S, token, t) == S

\* the sessions table after verify_session(token) at time t
SessionsAfterVerify(S, token, t) ==
    IF token = EmptyToken THEN S ELSE PurgeExpired(S, t)
-----------------------------------------------------------------------------
(* Academic catalog: the rows db_seed.py inserts.  Subject names are        *)
(* transliterated: Matematika, Programmirovanie na Python, Ekonomika.      *)

subjects ==
    { [id |-> 1, name |-> "Matematika"],
      [id |-> 2, name |-> "Programmirovanie na Python"],
      [id |-> 3, name |-> "Ekonomika"] }

assignments ==
    { [id |-> 1, subject_id |-> 1],
      [id |-> 2, subject_id |-> 2],
      [id |-> 3, subject_id |-> 3] }

subject_teachers ==
    { [subject_id |-> 1, teacher_id |-> 1],
      [subject_id |-> 2, teacher_id |-> 2],
      [subject_id |-> 3, teacher_id |-> 1] }

-----------------------------------------------------------------------------
(* Tables submissions, submission_files, grades *)

\* NULL in a text column, and in an integer column
Null == "NULL"
NullInt == 0 - 1

SetMax(S) == CHOOSE x \in S : \A y \in S : y <= x

\* the integer surrogate key the next inserted row of table T gets
NextId(T) == IF T = {} THEN 1 ELSE SetMax({row.id : row \in T}) + 1

\* the column defaults of a new submissions row: status and review are NULL
\* until a grading sets them
submissions_defaults == [status |-> Null, review |-> Null]

\* the uniqueness constraint of submissions on (student_id, assignment_id)
submissions_conflict(T, student_id, assignment_id) ==
    \E row \in T : row.student_id = student_id /\ row.assignment_id = assignment_id

\* INSERT OR REPLACE: the conflicting row is dropped and a row with a new id is
\* stored in its place
InsertOrReplaceSubmission(T, student_id, assignment_id) ==
    LET kept == {row \in T : ~(row.student_id = student_id
                                /\ row.assignment_id = assignment_id)}
    IN  kept \cup { [id |-> NextId(T), student_id |-> student_id,
                     assignment_id |-> assignment_id,
                     status |-> submissions_defaults.status,
              review |-> submissions_defaults.review] }

\* a plain INSERT on a table without the uniqueness constraint
InsertSubmission(T, student_id, assignment_id) ==
    T \cup { [id |-> NextId(T), student_id |-> student_id,
              assignment_id |-> assignment_id,
              status |-> submissions_defaults.status,
              review |-> submissions_defaults.review] }

\* INSERT OR IGNORE INTO submissions (student_id, assignment_id) VALUES (?, ?)
InsertOrIgnoreSubmission(T, student_id, assignment_id) ==
    IF submissions_conflict(T, student_id, assignment_id) THEN T
    ELSE T \cup { [id |-> NextId(T), student_id |-> student_id,
                   assignment_id |-> assignment_id,
                   status |-> submissions_defaults.status,
              review |-> submissions_defaults.review] }

\* SELECT id FROM submissions WHERE assignment_id = ? (the student forgotten)
SubmissionIdsOfAssignment(T, student_id, assignment_id) ==
    { row.id : row \in { x \in T : x.assignment_id = assignment_id } }

\* SELECT id FROM submissions WHERE student_id = ? AND assignment_id = ?
SubmissionIds(T, student_id, assignment_id) ==
    { row.id : row \in { x \in T : x.student_id = student_id
                                   /\ x.assignment_id = assignment_id } }

\* INSERT INTO submission_files (submission_id, file_path) VALUES (?, ?)
InsertSubmissionFile(T, submission_id, file_path) ==
    T \cup { [id |-> NextId(T), submission_id |-> submission_id,
              file_path |-> file_path] }

\* SELECT file_path FROM submission_files WHERE submission_id = ?
FileRows(T, submission_id) == {row \in T : row.submission_id = submission_id}

\* DELETE FROM submission_files WHERE submission_id <> ? (the inverted condition)
DeleteOtherFiles(T, submission_id) == {row \in T : row.submission_id = submission_id}

\* DELETE FROM submission_files WHERE submission_id = ?
DeleteSubmissionFiles(T, submission_id) == T \ FileRows(T, submission_id)

\* the rows of a table in rowid order, as fetchall() returns them
RECURSIVE RowsById(_)
RowsById(T) ==
    IF T = {} THEN <<>>
    ELSE LET first == CHOOSE x \in T : \A y \in T : x.id <= y.id
         IN  <<first>> \o RowsById(T \ {first})

\* the teacher-facing status labels, transliterated
L_zachet == "zachet"
L_sdano == "sdano"
L_ne_zachteno == "ne zachteno"
L_ne_dopuschen == "ne dopuschen"
L_ne_sdano == "ne sdano"
L_prinyat == "prinyat na rassmotrenie"
StatusLabels == {L_zachet, L_sdano, L_ne_zachteno, L_ne_dopuschen, L_ne_sdano, L_prinyat}

\* status_mapping.get(status_input): a lookup without the default
status_mapping_no_default(status_input) ==
    CASE status_input \in {L_zachet, L_sdano} -> "approved"
      [] status_input \in {L_ne_zachteno, L_ne_dopuschen, L_ne_sdano} -> "rejected"
      [] status_input = L_prinyat -> "in_review"
      [] OTHER -> Null

\* status_mapping.get(status_input, "submitted")
status_mapping(status_input) ==
    CASE status_input \in {L_zachet, L_sdano} -> "approved"
      [] status_input \in {L_ne_zachteno, L_ne_dopuschen, L_ne_sdano} -> "rejected"
      [] status_input = L_prinyat -> "in_review"
      [] OTHER -> "submitted"

\* UPDATE submissions SET status = ?, review = ? WHERE student_id = ? AND assignment_id = ?
UpdateSubmission(T, student_id, assignment_id, db_status, review) ==
    { IF row.student_id = student_id /\ row.assignment_id = assignment_id
      THEN [row EXCEPT !.status = db_status, !.review = review]
      ELSE row : row \in T }

\* grade_value = 100 if status_input in ("zachet", "sdano") else None
grade_value(status_input) == IF status_input \in {L_zachet, L_sdano} THEN 100 ELSE NullInt

\* INSERT INTO grades without the ON CONFLICT clause, on a table without the
\* uniqueness constraint
InsertGrade(T, student_id, subject_id, grade, status, review, graded_at) ==
    T \cup { [id |-> NextId(T), student_id |-> student_id,
              subject_id |-> subject_id, grade |-> grade, status |-> status,
              review |-> review, graded_at |-> graded_at] }

\* an upsert with DO UPDATE SET grade = COALESCE(excluded.grade, grade), ...
UpsertGradeKeepGrade(T, student_id, subject_id, grade, status, review, graded_at) ==
    IF \E row \in T : row.student_id = student_id /\ row.subject_id = subject_id
    THEN { IF row.student_id = student_id /\ row.subject_id = subject_id
           THEN [row EXCEPT !.grade = IF grade = NullInt THEN @ ELSE grade,
                            !.status = status, !.review = review,
                            !.graded_at = graded_at]
           ELSE row : row \in T }
    ELSE T \cup { [id |-> NextId(T), student_id |-> student_id,
                   subject_id |-> subject_id, grade |-> grade, status |-> status,
                   review |-> review, graded_at |-> graded_at] }

\* INSERT INTO grades ... ON CONFLICT(student_id, subject_id) DO UPDATE SET ...
UpsertGrade(T, student_id, subject_id, grade, status, review, graded_at) ==
    IF \E row \in T : row.student_id = student_id /\ row.subject_id = subject_id
    THEN { IF row.student_id = student_id /\ row.subject_id = subject_id
           THEN [row EXCEPT !.grade = grade, !.status = status, !.review = review,
                            !.graded_at = graded_at]
           ELSE row : row \in T }
    ELSE T \cup { [id |-> NextId(T), student_id |-> student_id,
                   subject_id |-> subject_id, grade |-> grade, status |-> status,
                   review |-> review, graded_at |-> graded_at] }

EmptyDb == [submissions |-> {}, submission_files |-> {}, grades |-> {}]

-----------------------------------------------------------------------------
(* File store *)

MaxNameLen == 100

IsAlnum(c) == c \in AsciiLetters \cup Digits \cup {"CYR_E", "CYR_K"}

\* "".join(c if c.isalnum() or c in "._-" else "_" for c in filename)[:100]
sanitize_filename(filename) ==
    LET safe == [i \in 1..Len(filename) |->
                    IF IsAlnum(filename[i]) \/ filename[i] \in {".", "_", "-"}
                    THEN filename[i] ELSE "_"]
    IN  SubSeq(safe, 1, IF Len(safe) < MaxNameLen THEN Len(safe) ELSE MaxNameLen)

\* UPLOAD_BASE_DIR / str(user_id) / str(assignment_id) / f"{timestamp}_{safe_name}"
FilePath(user_id, assignment_id, timestamp, safe_name) ==
    [student |-> user_id, assignment |-> assignment_id,
     timestamp |-> timestamp, name |-> safe_name]
-----------------------------------------------------------------------------
(* Requests *)

\* the Authorization header: absent, of another scheme, or "Bearer <token>"
NoHeader == [scheme |-> "none", token |-> EmptyToken]
BasicHeader == [scheme |-> "Basic", token |-> EmptyToken]
Bearer(token) == [scheme |-> "Bearer", token |-> token]

Unauthorized == <<0, "unauthorized">>

\* require_auth: the sessions it can return, or Unauthorized for HTTPException(401)
require_auth(authorization) ==
    IF authorization.scheme # "Bearer" THEN {Unauthorized}
    ELSE LET found == verify_session(sessions, authorization.token, now)
         IN  IF found = {} THEN {Unauthorized} ELSE found

\* the sessions table once require_auth has run
SessionsAfterAuth(authorization) ==
    IF authorization.scheme # "Bearer" THEN sessions
    ELSE SessionsAfterVerify(sessions, authorization.token, now)

\* verify_session writes to the database, so it waits for the write lock
AuthCanRun(authorization) ==
    (authorization.scheme = "Bearer" /\ authorization.token # EmptyToken)
        => lock = NoRequest

IdleRequest ==
    [op |-> "idle", pc |-> "idle", code |-> 0, detail |-> "",
     authorization |-> NoHeader, user_id |-> 0, assignment_id |-> 0, files |-> <<>>, saved_count |-> 0,
     submission_id |-> 0, first |-> FALSE, written |-> {},
     student_id |-> <<>>, subject_name |-> "",
     student |-> 0, subject |-> 0, status_input |-> "", review |-> Null,
     file_paths |-> <<>>, failed |-> {},
     tx |-> EmptyDb]

\* a handler ends by raising HTTPException(code, detail) or by returning (code 200)
Respond(q, code, detail) ==
    [q EXCEPT !.pc = "done", !.code = code, !.detail = detail,
              !.files = <<>>, !.file_paths = <<>>, !.tx = EmptyDb]

\* the response of a handler that raised on the arguments recorded in q
Reject(q, code, detail) == [q EXCEPT !.pc = "done", !.code = code, !.detail = detail]

\* the response of a handler that raised before it read any of its arguments
Refuse(op, authorization, code, detail) ==
    Respond([IdleRequest EXCEPT !.op = op, !.authorization = authorization], code, detail)

Free(r) == req[r].pc \in {"idle", "done"}

\* a new request is served in the first free slot
CanStart(r, maxRequests) ==
    /\ Free(r)
    /\ r = "r2" => ~Free("r1")
    /\ served < maxRequests

-----------------------------------------------------------------------------
(* POST /api/submit/{assignment_id} *)

\* if not files: the test without its second half
EmptyFileList(files) == files = <<>>

\* if not files or all(f.filename == "" for f in files)
NoFilesChosen(files) == files = <<>> \/ \A i \in 1..Len(files) : files[i].filename = <<>>

\* lines 165-181: authentication, role and input checks, lookup of the assignment
SubmitStart(r, maxRequests, authorization, assignment_id, files) ==
    /\ CanStart(r, maxRequests)
    /\ AuthCanRun(authorization)
    /\ \E session \in require_auth(authorization) :
         LET fresh == [IdleRequest EXCEPT !.op = "submit",
                                          !.authorization = authorization,
                                          !.user_id = session[1],
                                          !.assignment_id = assignment_id,
                                          !.files = files]
         IN  req' = [req EXCEPT ![r] =
                IF session = Unauthorized THEN Refuse("submit", authorization, 401, "unauthorized")
                ELSE IF session[2] # "student"
                     THEN Refuse("submit", authorization, 403, "forbidden")
                ELSE IF NoFilesChosen(files)
                     THEN Reject(fresh, 400, "no files")
                ELSE IF ~\E a \in assignments : a.id = assignment_id
                     THEN Reject(fresh, 404, "no assignment")
                ELSE [fresh EXCEPT
                        !.pc = "insert",
                        !.first = SubmissionIds(db.submissions, session[1],
                                                assignment_id) = {}]]
    /\ sessions' = SessionsAfterAuth(authorization)
    /\ served' = IF req'[r].pc = "done" THEN served ELSE served + 1
    /\ UNCHANGED <<now, issued, resp, db, disk, lock>>

\* lines 183-194: INSERT OR IGNORE opens the write transaction; the id is re-read
SubmitInsert(r) ==
    /\ req[r].op = "submit" /\ req[r].pc = "insert"
    /\ lock = NoRequest
    /\ lock' = r
    /\ LET subs == InsertOrIgnoreSubmission(db.submissions, req[r].user_id,
                                            req[r].assignment_id)
       IN  \E submission_id \in SubmissionIds(subs, req[r].user_id, req[r].assignment_id) :
             req' = [req EXCEPT ![r].pc = "files",
                                ![r].submission_id = submission_id,
                                ![r].tx = [db EXCEPT !.submissions = subs]]
    /\ UNCHANGED <<now, sessions, issued, resp, db, disk, served>>

\* lines 196-211: one iteration of the loop over the uploaded files
SubmitFile(r) ==
    /\ req[r].op = "submit" /\ req[r].pc = "files"
    /\ req[r].files # <<>>
    /\ LET file == Head(req[r].files)
           rest == Tail(req[r].files)
           file_path == FilePath(req[r].user_id, req[r].assignment_id, now,
                                 sanitize_filename(file.filename))
       IN  IF file.filename = <<>>
           THEN /\ req' = [req EXCEPT ![r].files = rest]
                /\ UNCHANGED <<disk, lock>>
           ELSE IF file.size > MAX_FILE_SIZE
           THEN \* the exception leaves "with get_db() as conn": rollback
                /\ req' = [req EXCEPT ![r] = Respond(req[r], 400, "too big")]
                /\ lock' = NoRequest
                /\ UNCHANGED disk
           ELSE /\ disk' = disk \cup {file_path}
                /\ req' = [req EXCEPT
                     ![r].files = rest,
                     ![r].saved_count = @ + 1,
                     ![r].written = @ \cup {file_path},
                     ![r].tx = [@ EXCEPT !.submission_files =
                                  InsertSubmissionFile(@, req[r].submission_id, file_path)]]
                /\ UNCHANGED lock
    /\ UNCHANGED <<now, sessions, issued, resp, db, served>>

\* line 213: the with block ends, the transaction commits
SubmitCommit(r) ==
    /\ req[r].op = "submit" /\ req[r].pc = "files"
    /\ req[r].files = <<>>
    /\ db' = req[r].tx
    /\ lock' = NoRequest
    /\ req' = [req EXCEPT ![r] = Respond(req[r], 200, "sent")]
    /\ UNCHANGED <<now, sessions, issued, resp, disk, served>>
-----------------------------------------------------------------------------
(* POST /api/teacher/grade *)

\* every label the status table maps to rejected
MapsToRejected(status_input) == status_mapping(status_input) = "rejected"

\* line 445: if status_input == "ne zachteno"
DeletesFiles(status_input) == status_input = L_ne_zachteno

\* SELECT id FROM subjects: the lookup without its WHERE clause
AllSubjects(subject_name) == subjects

\* lines 438-439: SELECT id FROM subjects WHERE name = ?
SubjectsNamed(subject_name) == {sj \in subjects : sj.name = subject_name}

\* lines 418-443: authentication, role check, lookup of the student and the subject
GradeStart(r, maxRequests, authorization, student_id, subject_name, assignment_id, status_input, review) ==
    /\ CanStart(r, maxRequests)
    /\ AuthCanRun(authorization)
    /\ \E session \in require_auth(authorization) :
         LET clean_student_id == validate_id(student_id)
             student_rows == {st \in students : st.student_id = clean_student_id}
             subject_rows == SubjectsNamed(subject_name)
             fresh == [IdleRequest EXCEPT !.op = "grade",
                                          !.authorization = authorization,
                                          !.user_id = session[1],
                                          !.student_id = student_id,
                                          !.subject_name = subject_name,
                                          !.assignment_id = assignment_id,
                                          !.status_input = status_input,
                                          !.review = review]
         IN  req' = [req EXCEPT ![r] =
                IF session = Unauthorized THEN Refuse("grade", authorization, 401, "unauthorized")
                ELSE IF session[2] # "teacher"
                     THEN Refuse("grade", authorization, 403, "forbidden")
                ELSE IF clean_student_id = Invalid
                     THEN Reject(fresh, 400, "bad id")
                ELSE IF student_rows = {}
                     THEN Reject(fresh, 404, "no student")
                ELSE IF subject_rows = {}
                     THEN Reject(fresh, 404, "no subject")
                ELSE [fresh EXCEPT
                        !.student = (CHOOSE st \in student_rows : TRUE).id,
                        !.subject = (CHOOSE sj \in subject_rows : TRUE).id,
                        !.pc = IF DeletesFiles(status_input)
                               THEN "list_files" ELSE "write"]]
    /\ sessions' = SessionsAfterAuth(authorization)
    /\ served' = IF req'[r].pc = "done" THEN served ELSE served + 1
    /\ UNCHANGED <<now, issued, resp, db, disk, lock>>

\* lines 445-454: the submission of the pair and the paths of its files are read
GradeListFiles(r) ==
    /\ req[r].op = "grade" /\ req[r].pc = "list_files"
    /\ LET ids == SubmissionIds(db.submissions, req[r].student, req[r].assignment_id)
       IN  IF ids = {}
           THEN req' = [req EXCEPT ![r].pc = "write"]
           ELSE \E submission_id \in ids :
                  req' = [req EXCEPT
                     ![r].pc = "remove",
                     ![r].submission_id = submission_id,
                     ![r].file_paths =
                        LET rows == RowsById(FileRows(db.submission_files, submission_id))
                        IN  [i \in 1..Len(rows) |-> rows[i].file_path]]
    /\ UNCHANGED <<now, sessions, issued, resp, db, disk, lock, served>>

\* os.remove(fp) outside a try block: an OSError ends the request with a 500
\* and the with block rolls back
GradeRemoveFileRaises(r, outcomes) ==
    /\ req[r].op = "grade" /\ req[r].pc = "remove"
    /\ req[r].file_paths # <<>>
    /\ LET fp == Head(req[r].file_paths)
       IN  \E outcome \in outcomes :
             IF outcome = "removed" \/ fp \notin disk
             THEN /\ disk' = disk \ {fp}
                  /\ req' = [req EXCEPT ![r].file_paths = Tail(@)]
             ELSE /\ disk' = disk
                  /\ req' = [req EXCEPT ![r] = Respond(req[r], 500, "Internal Server Error")]
    /\ UNCHANGED <<now, sessions, issued, resp, db, lock, served>>

\* lines 455-459: os.remove(fp); FileNotFoundError and any other OSError are swallowed
GradeRemoveFile(r, outcomes) ==
    /\ req[r].op = "grade" /\ req[r].pc = "remove"
    /\ req[r].file_paths # <<>>
    /\ LET fp == Head(req[r].file_paths)
       IN  \E outcome \in outcomes :
             IF outcome = "removed" \/ fp \notin disk
             THEN /\ disk' = disk \ {fp}
                  /\ req' = [req EXCEPT ![r].file_paths = Tail(@)]
             ELSE /\ disk' = disk
                  /\ req' = [req EXCEPT ![r].file_paths = Tail(@),
                                        ![r].failed = @ \cup {fp}]
    /\ UNCHANGED <<now, sessions, issued, resp, db, lock, served>>

\* the writes of a grading that records a grade only for a submitted assignment
GradeWritesIfSubmitted(T, q, deleteFiles, graded_at) ==
    [submissions |->
        UpdateSubmission(T.submissions, q.student, q.assignment_id,
                         status_mapping(q.status_input), q.review),
     submission_files |->
        IF deleteFiles THEN DeleteSubmissionFiles(T.submission_files, q.submission_id)
        ELSE T.submission_files,
     grades |->
        IF SubmissionIds(T.submissions, q.student, q.assignment_id) = {}
        THEN T.grades
        ELSE UpsertGrade(T.grades, q.student, q.subject, grade_value(q.status_input),
                         q.status_input, q.review, graded_at)]

\* the tables after lines 460-488 have run on tables T
GradeWrites(T, q, deleteFiles, graded_at) ==
    [submissions |->
        UpdateSubmission(T.submissions, q.student, q.assignment_id,
                         status_mapping(q.status_input), q.review),
     submission_files |->
        IF deleteFiles THEN DeleteSubmissionFiles(T.submission_files, q.submission_id)
        ELSE T.submission_files,
     grades |->
        UpsertGrade(T.grades, q.student, q.subject, grade_value(q.status_input),
                    q.status_input, q.review, graded_at)]

\* lines 460-490: the first write opens the transaction, the with block commits it
GradeWrite(r) ==
    /\ req[r].op = "grade"
    /\ \/ req[r].pc = "write"
       \/ req[r].pc = "remove" /\ req[r].file_paths = <<>>
    /\ lock = NoRequest
    /\ db' = GradeWrites(db, req[r], req[r].pc = "remove", now)
    /\ req' = [req EXCEPT ![r] = Respond(req[r], 200, "saved")]
    /\ UNCHANGED <<now, sessions, issued, resp, disk, lock, served>>

-----------------------------------------------------------------------------
(* POST /api/login, POST /api/teacher/login *)

NoResponse == [op |-> "none", code |-> 0, detail |-> ""]

LoginResponse(op, id, password, code, detail, token, user_id) ==
    [op |-> op, code |-> code, detail |-> detail, id |-> id, password |-> password,
     token |-> token, user_id |-> user_id]

\* lines 142-163
login(student_id, password, maxTokens) ==
    LET clean_id == validate_id(student_id)
        birth_date == normalize_birth_date(password)
        rows == {st \in students : st.student_id = clean_id /\ st.birth_date = birth_date}
        Answer(code, detail, token, user_id) ==
            LoginResponse("login", student_id, password, code, detail, token, user_id)
    IN  /\ issued < maxTokens
        /\ IF clean_id = Invalid
           THEN /\ resp' = Answer(400, "bad id", EmptyToken, 0)
                /\ UNCHANGED <<sessions, issued>>
           ELSE IF birth_date = Invalid
           THEN /\ resp' = Answer(400, "bad date", EmptyToken, 0)
                /\ UNCHANGED <<sessions, issued>>
           ELSE IF rows = {}
           THEN /\ resp' = Answer(401, "bad credentials", EmptyToken, 0)
                /\ UNCHANGED <<sessions, issued>>
           ELSE \E student \in rows :
                  /\ lock = NoRequest
                  /\ sessions' = create_session(sessions, student.id, "student", now)
                  /\ issued' = issued + 1
                  /\ resp' = Answer(200, "ok", NewToken(student.id, "student"), student.id)
        /\ UNCHANGED <<now, db, disk, lock, req, served>>

\* lines 311-332
teacher_login(teacher_id, password, maxTokens) ==
    LET clean_id == validate_id(teacher_id)
        birth_date == normalize_birth_date(password)
        rows == {t \in teachers : t.teacher_id = clean_id /\ t.birth_date = birth_date}
        Answer(code, detail, token, user_id) ==
            LoginResponse("teacher_login", teacher_id, password, code, detail, token, user_id)
    IN  /\ issued < maxTokens
        /\ IF clean_id = Invalid
           THEN /\ resp' = Answer(400, "bad id", EmptyToken, 0)
                /\ UNCHANGED <<sessions, issued>>
           ELSE IF birth_date = Invalid
           THEN /\ resp' = Answer(400, "bad date", EmptyToken, 0)
                /\ UNCHANGED <<sessions, issued>>
           ELSE IF rows = {}
           THEN /\ resp' = Answer(401, "bad credentials", EmptyToken, 0)
                /\ UNCHANGED <<sessions, issued>>
           ELSE \E teacher \in rows :
                  /\ lock = NoRequest
                  /\ sessions' = create_session(sessions, teacher.id, "teacher", now)
                  /\ issued' = issued + 1
                  /\ resp' = Answer(200, "ok", NewToken(teacher.id, "teacher"), teacher.id)
        /\ UNCHANGED <<now, db, disk, lock, req, served>>

-----------------------------------------------------------------------------
(* The clock *)

\* time passes: one second, or a whole session window
Tick(d) ==
    /\ d \in {1, SessionWindow}
    /\ now + d <= MaxTime
    /\ d = 1 => now % SessionWindow < MaxSeconds
    /\ now' = now + d
    /\ UNCHANGED <<sessions, issued, resp, db, disk, lock, req, served>>
-----------------------------------------------------------------------------
(* The read-only endpoints.  Each runs to its response in one step: it      *)
(* reads committed rows only and writes nothing but the session purge.     *)

Answered(op, authorization, session, code, detail, result) ==
    [op |-> op, code |-> code, detail |-> detail, authorization |-> authorization,
     session |-> session, result |-> result]

\* the numeric keys a session can carry
UserKeys == {u.id : u \in students \cup teachers}

\* the common shape of the role-gated GET handlers; results[u] is the body
\* the handler returns to user u
Guarded(op, role, authorization, results) ==
    /\ AuthCanRun(authorization)
    /\ \E session \in require_auth(authorization) :
         resp' = IF session = Unauthorized
                 THEN Answered(op, authorization, session, 401, "unauthorized", {})
                 ELSE IF session[2] # role
                 THEN Answered(op, authorization, session, 403, "forbidden", {})
                 ELSE Answered(op, authorization, session, 200, "ok", results[session[1]])
    /\ sessions' = SessionsAfterAuth(authorization)
    /\ UNCHANGED <<now, issued, db, disk, lock, req, served>>

SubjectName(subject_id) == (CHOOSE sj \in subjects : sj.id = subject_id).name

\* a submission_map that is never filled
NoSubmission(user_id, assignment_id) == {[status |-> Null, review |-> Null]}

\* submission_map.get(a["id"], {}): status and review of the caller's submission
OwnSubmission(user_id, assignment_id) ==
    LET mine == {x \in db.submissions : x.student_id = user_id
                                        /\ x.assignment_id = assignment_id}
    IN  IF mine = {} THEN {[status |-> Null, review |-> Null]}
        ELSE {[status |-> x.status, review |-> x.review] : x \in mine}

\* lines 222-274: every assignment with the caller's own submission, if any
MyAssignments(user_id) ==
    UNION { { [id |-> a.id,
               subject |-> SubjectName(a.subject_id),
               teachers |-> {l.teacher_id : l \in {x \in subject_teachers :
                                                      x.subject_id = a.subject_id}},
               status |-> s.status, review |-> s.review]
              : s \in OwnSubmission(user_id, a.id) }
            : a \in assignments }

\* lines 216-274
get_my_assignments(authorization) ==
    Guarded("get_my_assignments", "student", authorization,
            [u \in UserKeys |-> MyAssignments(u)])

\* lines 282-307
MyGrades(user_id) ==
    { [subject |-> SubjectName(g.subject_id),
       grade |-> g.grade, status |-> g.status, graded_at |-> g.graded_at]
      : g \in {x \in db.grades : x.student_id = user_id} }

\* lines 276-307
get_my_grades(authorization) ==
    Guarded("get_my_grades", "student", authorization,
            [u \in UserKeys |-> MyGrades(u)])

ApprovalLabels == {L_zachet, L_sdano}

\* the row the LEFT JOIN supplies where the student has no grade in the subject
NoGrade == [id |-> 0, student_id |-> 0, subject_id |-> 0, grade |-> NullInt,
            status |-> Null, review |-> Null, graded_at |-> NullInt]

\* the rows of the join of lines 353-360
TeacherQueueRows(user_id) ==
    { row \in [a : assignments, sub : db.submissions, st : students,
               g : db.grades \cup {NoGrade}] :
        /\ \E l \in subject_teachers :
             l.subject_id = row.a.subject_id /\ l.teacher_id = user_id
        /\ row.sub.assignment_id = row.a.id
        /\ row.sub.student_id = row.st.id
        /\ IF row.g = NoGrade
           THEN ~\E g \in db.grades : g.student_id = row.st.id
                                     /\ g.subject_id = row.a.subject_id
           ELSE /\ row.g.student_id = row.st.id
                /\ row.g.subject_id = row.a.subject_id
                /\ row.g.status \notin ApprovalLabels }

\* lines 341-363
MyTeacherAssignments(user_id) ==
    { [assignment_id |-> row.a.id,
       subject |-> SubjectName(row.a.subject_id),
       student_id |-> row.st.student_id,
       last_status |-> row.g.status,
       last_action_at |-> row.g.graded_at]
      : row \in TeacherQueueRows(user_id) }

\* lines 335-363
get_my_teacher_assignments(authorization) ==
    Guarded("get_my_teacher_assignments", "teacher", authorization,
            [u \in UserKeys |-> MyTeacherAssignments(u)])

\* lines 371-389
MyTeacherHistory(user_id) ==
    { [student_id |-> row.st.student_id,
       subject |-> SubjectName(row.a.subject_id),
       assignment_id |-> row.a.id,
       graded_at |-> row.g.graded_at]
      : row \in { x \in [g : db.grades, a : assignments, st : students] :
                    /\ x.a.subject_id = x.g.subject_id
                    /\ x.st.id = x.g.student_id
                    /\ \E l \in subject_teachers :
                         l.subject_id = x.g.subject_id /\ l.teacher_id = user_id
                    /\ x.g.status \in ApprovalLabels } }

\* lines 365-389
get_my_teacher_history(authorization) ==
    Guarded("get_my_teacher_history", "teacher", authorization,
            [u \in UserKeys |-> MyTeacherHistory(u)])

\* lines 391-416
get_submission_files(authorization, assignment_id, student_id) ==
    /\ AuthCanRun(authorization)
    /\ \E session \in require_auth(authorization) :
         LET op == "get_submission_files"
             clean_id == validate_id(student_id)
             paths == { sf.file_path :
                          sf \in { x \in db.submission_files :
                                     \E sub \in db.submissions, st \in students :
                                        /\ x.submission_id = sub.id
                                        /\ sub.student_id = st.id
                                        /\ sub.assignment_id = assignment_id
                                        /\ st.student_id = clean_id } }
         IN  resp' = IF session = Unauthorized
                     THEN Answered(op, authorization, session, 401, "unauthorized", {})
                     ELSE IF session[2] # "teacher"
                     THEN Answered(op, authorization, session, 403, "forbidden", {})
                     ELSE IF clean_id = Invalid
                     THEN Answered(op, authorization, session, 400, "bad id", {})
                     ELSE Answered(op, authorization, session, 200, "ok", paths)
    /\ sessions' = SessionsAfterAuth(authorization)
    /\ UNCHANGED <<now, issued, db, disk, lock, req, served>>

-----------------------------------------------------------------------------
(* GET /download/{path} *)

\* str(n) of a natural number
RECURSIVE Str(_)
Str(n) == IF n < 10 THEN <<DigitChar(n)>> ELSE Str(n \div 10) \o <<DigitChar(n % 10)>>

Str_submissions == <<"s", "u", "b", "m", "i", "s", "s", "i", "o", "n", "s">>

\* the stored file's name: the timestamp (written here as the count of seconds),
\* "_", the sanitized name
StoredName(fp) == Str(fp.timestamp) \o <<"_">> \o fp.name

\* the components of a stored path below storage/
StoredSegments(fp) ==
    <<Str_submissions, Str(fp.student), Str(fp.assignment), StoredName(fp)>>

RECURSIVE Join(_)
Join(segs) == IF segs = <<>> THEN <<>>
              ELSE IF Len(segs) = 1 THEN segs[1]
              ELSE segs[1] \o <<"/">> \o Join(Tail(segs))

\* row[0].replace("storage/", "", 1): the path the teacher's file list shows
RelPath(fp) == Join(StoredSegments(fp))

\* path.split("/")
RECURSIVE Split(_)
Split(path) ==
    IF \A i \in 1..Len(path) : path[i] # "/" THEN <<path>>
    ELSE LET k == CHOOSE i \in 1..Len(path) :
                     path[i] = "/" /\ \A j \in 1..(i - 1) : path[j] # "/"
         IN  <<SubSeq(path, 1, k - 1)>> \o Split(SubSeq(path, k + 1, Len(path)))

\* ".." in path
HasDotDot(path) == \E i \in 1..(Len(path) - 1) : path[i] = "." /\ path[i + 1] = "."

\* path.startswith("/")
StartsWithSlash(path) == path # <<>> /\ path[1] = "/"

Outside == << <<".", ".">> >>

\* where Path("storage") / path leads, as components below storage/, or Outside
\* when it leaves storage/ (an absolute path replaces the base; ".." climbs)
RECURSIVE Walk(_, _)
Walk(stack, segs) ==
    IF segs = <<>> THEN stack
    ELSE IF Head(segs) \in {<<>>, <<".">>} THEN Walk(stack, Tail(segs))
    ELSE IF Head(segs) = <<".", ".">>
         THEN IF stack = <<>> THEN Outside
              ELSE Walk(SubSeq(stack, 1, Len(stack) - 1), Tail(segs))
    ELSE Walk(Append(stack, Head(segs)), Tail(segs))

Resolve(path) == IF StartsWithSlash(path) THEN Outside ELSE Walk(<<>>, Split(path))

\* full_path.is_file() for full_path = Path("storage") / path
IsFile(path) == \E fp \in disk : StoredSegments(fp) = Resolve(path)

\* a guard that only looks for the leading slash
OnlyLeadingSlash(path) == StartsWithSlash(path)

\* the guard of line 496
PathRefused(path) == HasDotDot(path) \/ StartsWithSlash(path)

\* what the filesystem answers for Path("storage") / path: is_file() and the
\* components of resolve() below storage/ (Outside when it leaves storage/)
FsAnswer(is_file, resolved) == [is_file |-> is_file, resolved |-> resolved]

FsResponse(authorization, path, fs, code, detail, calls) ==
    [op |-> "download_file", code |-> code, detail |-> detail,
     authorization |-> authorization, path |-> path, fs |-> fs, calls |-> calls]

\* lines 494-510 on a filesystem that answers fs for the requested path; calls
\* lists the filesystem calls made on the path
download_file_on(authorization, path, fs) ==
    /\ AuthCanRun(authorization)
    /\ \E session \in require_auth(authorization) :
         resp' =
            IF session = Unauthorized
            THEN FsResponse(authorization, path, fs, 401, "unauthorized", <<>>)
            ELSE IF PathRefused(path)
            THEN FsResponse(authorization, path, fs, 400, "bad path", <<>>)
            ELSE IF ~fs.is_file
            THEN FsResponse(authorization, path, fs, 404, "no file", <<"is_file">>)
            ELSE IF fs.resolved = Outside
            THEN FsResponse(authorization, path, fs, 400, "forbidden",
                            <<"is_file", "resolve">>)
            ELSE FsResponse(authorization, path, fs, 200, "file",
                            <<"is_file", "resolve", "read">>)
    /\ sessions' = SessionsAfterAuth(authorization)
    /\ UNCHANGED <<now, issued, db, disk, lock, req, served>>

\* lines 494-510 on a storage directory that holds the stored files only
download_file(authorization, path) ==
    download_file_on(authorization, path, FsAnswer(IsFile(path), Resolve(path)))

-----------------------------------------------------------------------------
(* Inputs *)

Requests == {"r1", "r2"}

Pw_15_05_2001 == <<"1", "5", ".", "0", "5", ".", "2", "0", "0", "1">>
Pw_15052001 == <<"1", "5", "0", "5", "2", "0", "0", "1">>
Pw_150501 == <<"1", "5", "0", "5", "0", "1">>
Pw_16_05_2001 == <<"1", "6", ".", "0", "5", ".", "2", "0", "0", "1">>
Pw_30_08_2000 == <<"3", "0", ".", "0", "8", ".", "2", "0", "0", "0">>
Pw_31_02_2001 == <<"3", "1", ".", "0", "2", ".", "2", "0", "0", "1">>
Pw_23_11_2002 == <<"2", "3", ".", "1", "1", ".", "2", "0", "0", "2">>
Pw_1505 == <<"1", "5", "0", "5">>
Pw_12_03_1975 == <<"1", "2", ".", "0", "3", ".", "1", "9", "7", "5">>
Pw_120375 == <<" ", "1", "2", "0", "3", "7", "5", " ">>

Str_unknown == <<"2", "0", "2", "3", "-", "I", "S", "-", "0", "4", "4">>
Str_padded == <<" ">> \o Str_2023_IS_042 \o <<"\n">>
Str_bad == <<"a", " ", "b">>

StudentIdInputs ==
    {Str_2023_IS_042, Str_2023_EK_115, Str_unknown, Str_padded, Str_bad, <<>>,
     Str_T_MATH_01}
TeacherIdInputs == {Str_T_MATH_01, Str_unknown, Str_bad, Str_2023_IS_042}
PasswordInputs ==
    {Pw_15_05_2001, Pw_15052001, Pw_150501, Pw_16_05_2001, Pw_30_08_2000,
     Pw_31_02_2001, Pw_1505, Pw_12_03_1975, Pw_120375, <<>>}

File(filename, size) == [filename |-> filename, size |-> size]
Name_a == <<"a">>
Name_b == <<"b", " ", "c">>

FileBatches ==
    { <<File(Name_a, 1)>>,
      <<File(Name_b, MAX_FILE_SIZE), File(Name_a, MAX_FILE_SIZE + 1)>>,
      <<File(<<>>, 1), File(Name_a, 1)>> }

\* the tokens the first n logins produced
Issued(n) == {Bearer(t) : t \in 1..n}

\* no header, another scheme, an empty token, issued tokens, a token never issued
AnyHeader(n) == {NoHeader, BasicHeader, Bearer(EmptyToken)} \cup Issued(n + 1)

Init ==
    /\ now = 0
    /\ sessions = {}
    /\ issued = 0
    /\ resp = NoResponse
    /\ db = EmptyDb
    /\ disk = {}
    /\ lock = NoRequest
    /\ req = [r \in Requests |-> IdleRequest]
    /\ served = 0

-----------------------------------------------------------------------------
(* Spec: one student and one teacher, two requests in flight at a time *)

\* one login for each user of this scenario
PortalUsers == {Str_2023_IS_042, Str_T_MATH_01}
PortalLogins == Cardinality(PortalUsers)

Next ==
    \/ login(Str_2023_IS_042, Pw_15_05_2001, PortalLogins)
    \/ teacher_login(Str_T_MATH_01, Pw_12_03_1975, PortalLogins)
    \/ Tick(1)
    \/ \E r \in Requests, h \in Issued(PortalLogins), a \in {1, 2}, files \in FileBatches :
         SubmitStart(r, MaxRequests, h, a, files)
    \/ \E r \in Requests : SubmitInsert(r)
    \/ \E r \in Requests : SubmitFile(r)
    \/ \E r \in Requests : SubmitCommit(r)
    \/ \E r \in Requests, h \in Issued(PortalLogins), label \in {L_zachet, L_ne_zachteno} :
         GradeStart(r, MaxRequests, h, Str_2023_IS_042, "Matematika", 1, label, Null)
    \/ \E r \in Requests : GradeListFiles(r)
    \/ \E r \in Requests : GradeRemoveFile(r, {"removed", "failed"})
    \/ \E r \in Requests : GradeWrite(r)

Spec == Init /\ [][Next]_vars

-----------------------------------------------------------------------------
(* SpecLogin: logins with right, wrong and malformed credentials *)

NextLogin ==
    \/ \E id \in StudentIdInputs, pw \in PasswordInputs : login(id, pw, MaxTokens)
    \/ \E id \in TeacherIdInputs, pw \in PasswordInputs : teacher_login(id, pw, MaxTokens)

SpecLogin == Init /\ [][NextLogin]_vars

-----------------------------------------------------------------------------
(* SpecSession: logins, session checks by a student-only and a teacher-only *)
(* endpoint, expiry                                                         *)

NextSession ==
    \/ login(Str_2023_IS_042, Pw_15_05_2001, MaxTokens)
    \/ login(Str_2023_IS_043, Pw_23_11_2002, MaxTokens)
    \/ teacher_login(Str_T_MATH_01, Pw_12_03_1975, MaxTokens)
    \/ \E d \in {1, SessionWindow} : Tick(d)
    \/ \E h \in AnyHeader(MaxTokens) : get_my_grades(h)
    \/ \E h \in AnyHeader(MaxTokens) : get_my_teacher_history(h)

SpecSession == Init /\ [][NextSession]_vars

-----------------------------------------------------------------------------
(* SpecGate: every privileged endpoint, one request at a time *)

GateRequests == MaxRequests

NextGate ==
    \/ login(Str_2023_IS_042, Pw_15_05_2001, PortalLogins)
    \/ teacher_login(Str_T_MATH_01, Pw_12_03_1975, PortalLogins)
    \/ Tick(SessionWindow)
    \/ \E h \in AnyHeader(PortalLogins) :
         SubmitStart("r1", GateRequests, h, 1, <<File(Name_a, 1)>>)
    \/ SubmitInsert("r1")
    \/ SubmitFile("r1")
    \/ SubmitCommit("r1")
    \/ \E h \in AnyHeader(PortalLogins) :
         GradeStart("r1", GateRequests, h, Str_2023_IS_042, "Matematika", 1,
                    L_ne_zachteno, Null)
    \/ GradeListFiles("r1")
    \/ GradeRemoveFile("r1", {"removed"})
    \/ GradeWrite("r1")
    \/ \E h \in AnyHeader(PortalLogins) : get_my_assignments(h)
    \/ \E h \in AnyHeader(PortalLogins) : get_my_grades(h)
    \/ \E h \in AnyHeader(PortalLogins) : get_my_teacher_assignments(h)
    \/ \E h \in AnyHeader(PortalLogins) : get_my_teacher_history(h)
    \/ \E h \in AnyHeader(PortalLogins) : get_submission_files(h, 1, Str_2023_IS_042)
    \/ \E h \in AnyHeader(PortalLogins), fp \in disk : download_file(h, RelPath(fp))
    \/ \E h \in AnyHeader(PortalLogins) : download_file(h, <<"a">>)

SpecGate == Init /\ [][NextGate]_vars

-----------------------------------------------------------------------------
(* SpecDownload: a student uploads, anyone logged in downloads *)

PathChars == {".", "/", "a"}

\* every path of at most MaxPathLen characters
ShortPaths == UNION { [1..n -> PathChars] : n \in 0..MaxPathLen }

Str_etc_passwd == <<"e", "t", "c", "/", "p", "a", "s", "s", "w", "d">>
LongPaths ==
    { <<".", ".", "/", ".", ".", "/">> \o Str_etc_passwd,
      <<"/">> \o Str_etc_passwd,
      Str_submissions \o <<"/", "1", "/", ".", ".", "/", "2">>,
      Str_submissions \o <<"/", "1", "/", "1", "/", "0", "_", "b">> }

NextDownload ==
    \/ login(Str_2023_IS_042, Pw_15_05_2001, Cardinality({Str_2023_IS_042}))
    \/ \E h \in Issued(1) : SubmitStart("r1", MaxRequests, h, 1, <<File(Name_a, 1)>>)
    \/ SubmitInsert("r1")
    \/ SubmitFile("r1")
    \/ SubmitCommit("r1")
    \/ \E h \in {NoHeader} \cup Issued(1), path \in ShortPaths \cup LongPaths :
         download_file(h, path)
    \/ \E h \in {NoHeader} \cup Issued(1), fp \in disk,
          prefix \in {<<>>, <<".", "/">>, Str_submissions \o <<"/", ".", ".", "/">>} :
         download_file(h, prefix \o RelPath(fp))

SpecDownload == Init /\ [][NextDownload]_vars

-----------------------------------------------------------------------------
(* SpecJourney: one student and one teacher, one request after the other:  *)
(* upload, grading with every label, the student's two lists               *)

L_otlichno == "otlichno"
JourneyLabels == StatusLabels \cup {L_otlichno}
Review_redo == "redo"
JourneyRequests == MaxRequests + 2

\* the headers of the users of one role who are logged in
HeadersOf(role) == {Bearer(x.token) : x \in {y \in sessions : y.user_type = role}}

NextJourney ==
    \/ login(Str_2023_IS_042, Pw_15_05_2001, PortalLogins)
    \/ teacher_login(Str_T_MATH_01, Pw_12_03_1975, PortalLogins)
    \/ \E h \in HeadersOf("student") :
         SubmitStart("r1", JourneyRequests, h, 1, <<File(Name_a, 1)>>)
    \/ SubmitInsert("r1")
    \/ SubmitFile("r1")
    \/ SubmitCommit("r1")
    \/ \E h \in HeadersOf("teacher"), label \in JourneyLabels, review \in {Null, Review_redo} :
         GradeStart("r1", JourneyRequests, h, Str_2023_IS_042, "Matematika", 1, label, review)
    \/ GradeListFiles("r1")
    \/ GradeRemoveFile("r1", {"removed", "failed"})
    \/ GradeWrite("r1")
    \/ \E h \in HeadersOf("student") : get_my_assignments(h)
    \/ \E h \in HeadersOf("student") : get_my_grades(h)

SpecJourney == Init /\ [][NextJourney]_vars

-----------------------------------------------------------------------------
(* SpecReject: uploads and gradings with arguments the handlers refuse *)

\* an id no assignment has
UnknownAssignment == Cardinality(assignments) + 1
\* a name no subject has
Subject_unknown == "Astronomiya"

RejectBatches ==
    { <<>>,
      <<File(<<>>, 1)>>,
      <<File(<<>>, 1), File(<<>>, 1)>>,
      <<File(Name_a, 1)>> }

RejectStudents == {Str_2023_IS_042, Str_unknown, Str_bad}

NextReject ==
    \/ login(Str_2023_IS_042, Pw_15_05_2001, PortalLogins)
    \/ teacher_login(Str_T_MATH_01, Pw_12_03_1975, PortalLogins)
    \/ \E h \in HeadersOf("student"), a \in {1, UnknownAssignment}, files \in RejectBatches :
         SubmitStart("r1", MaxRequests, h, a, files)
    \/ SubmitInsert("r1")
    \/ SubmitFile("r1")
    \/ SubmitCommit("r1")
    \/ \E h \in HeadersOf("teacher"), student_id \in RejectStudents,
          subject_name \in {"Matematika", Subject_unknown},
          label \in {L_zachet, L_ne_zachteno} :
         GradeStart("r1", MaxRequests, h, student_id, subject_name, 1, label, Null)
    \/ GradeListFiles("r1")
    \/ GradeRemoveFile("r1", {"removed"})
    \/ GradeWrite("r1")

SpecReject == Init /\ [][NextReject]_vars

-----------------------------------------------------------------------------
(* SpecExpiry: sessions while time passes and every kind of operation runs *)

\* each of the two users logs in, and one of them logs in again
ExpiryLogins == PortalLogins + 1

NextExpiry ==
    \/ login(Str_2023_IS_042, Pw_15_05_2001, ExpiryLogins)
    \/ teacher_login(Str_T_MATH_01, Pw_12_03_1975, ExpiryLogins)
    \/ \E d \in {1, SessionWindow} : Tick(d)
    \/ \E h \in HeadersOf("student") \cup HeadersOf("teacher") : get_my_grades(h)
    \/ \E h \in HeadersOf("student") :
         SubmitStart("r1", MaxRequests, h, 1, <<File(Name_a, 1)>>)
    \/ SubmitInsert("r1")
    \/ SubmitFile("r1")
    \/ SubmitCommit("r1")
    \/ \E h \in HeadersOf("teacher") :
         GradeStart("r1", MaxRequests, h, Str_2023_IS_042, "Matematika", 1, L_zachet, Null)
    \/ GradeWrite("r1")

SpecExpiry == Init /\ [][NextExpiry]_vars

-----------------------------------------------------------------------------
(* SpecCollide: uploads of files whose stored names coincide *)

Name_b_c == <<"b", "_", "c">>

\* the same name twice; two names with one sanitized form; one file
CollidingBatches ==
    { <<File(Name_a, 1), File(Name_a, 1)>>,
      <<File(Name_b, 1), File(Name_b_c, 1)>>,
      <<File(Name_a, 1)>> }

NextCollide ==
    \/ login(Str_2023_IS_042, Pw_15_05_2001, PortalLogins)
    \/ Tick(1)
    \/ \E h \in HeadersOf("student"), files \in CollidingBatches :
         SubmitStart("r1", MaxRequests, h, 1, files)
    \/ SubmitInsert("r1")
    \/ SubmitFile("r1")
    \/ SubmitCommit("r1")

SpecCollide == Init /\ [][NextCollide]_vars

-----------------------------------------------------------------------------
(* SpecLinks: downloads from a storage directory in which a path component   *)
(* may be a symbolic link, so that a path without ".." can lead anywhere.    *)

Str_link == <<"l">>

\* a stored file, a name that does not exist, a name that may be a link
LinkPaths ==
    { Str_submissions \o <<"/", "1", "/", "1", "/", "0", "_", "a">>,
      Str_submissions \o <<"/", "1", "/", "1", "/", "0", "_", "b">>,
      Str_submissions \o <<"/">> \o Str_link,
      <<".", ".", "/">> \o Str_etc_passwd }

\* what is_file() and resolve() can answer for a path: what the stored files
\* give, and, through a link, a target inside or outside storage/ that is or
\* is not a regular file
FsAnswers(path) ==
    {FsAnswer(IsFile(path), Resolve(path))}
        \cup {FsAnswer(is_file, resolved) :
                 is_file \in BOOLEAN, resolved \in {Outside, Resolve(path)}}

NextLinks ==
    \/ login(Str_2023_IS_042, Pw_15_05_2001, Cardinality({Str_2023_IS_042}))
    \/ \E h \in HeadersOf("student") :
         SubmitStart("r1", MaxRequests, h, 1, <<File(Name_a, 1)>>)
    \/ SubmitInsert("r1")
    \/ SubmitFile("r1")
    \/ SubmitCommit("r1")
    \/ \E h \in {NoHeader} \cup Issued(1), path \in LinkPaths :
         \E fs \in FsAnswers(path) : download_file_on(h, path, fs)

SpecLinks == Init /\ [][NextLinks]_vars

-----------------------------------------------------------------------------
(* SpecQueue: uploads, gradings and the teacher's pending-review queue *)

NextQueue ==
    \/ login(Str_2023_IS_042, Pw_15_05_2001, PortalLogins)
    \/ teacher_login(Str_T_MATH_01, Pw_12_03_1975, PortalLogins)
    \/ \E h \in HeadersOf("student"), a \in {1, 2} :
         SubmitStart("r1", JourneyRequests, h, a, <<File(Name_a, 1)>>)
    \/ SubmitInsert("r1")
    \/ SubmitFile("r1")
    \/ SubmitCommit("r1")
    \/ \E h \in HeadersOf("teacher"), a \in {1, 2, UnknownAssignment},
          label \in {L_zachet, L_prinyat} :
         GradeStart("r1", JourneyRequests, h, Str_2023_IS_042, "Matematika", a, label, Null)
    \/ GradeWrite("r1")
    \/ \E h \in HeadersOf("teacher") : get_my_teacher_assignments(h)

SpecQueue == Init /\ [][NextQueue]_vars

-----------------------------------------------------------------------------
(* SpecOwnership: two students upload side by side *)

OwnershipUsers == {Str_2023_IS_042, Str_2023_IS_043}
OwnershipLogins == Cardinality(OwnershipUsers)

NextOwnership ==
    \/ login(Str_2023_IS_042, Pw_15_05_2001, OwnershipLogins)
    \/ login(Str_2023_IS_043, Pw_23_11_2002, OwnershipLogins)
    \/ \E r \in Requests, h \in Issued(OwnershipLogins), a \in {1, 2}, files \in FileBatches :
         SubmitStart(r, MaxRequests, h, a, files)
    \/ \E r \in Requests : SubmitInsert(r)
    \/ \E r \in Requests : SubmitFile(r)
    \/ \E r \in Requests : SubmitCommit(r)

SpecOwnership == Init /\ [][NextOwnership]_vars

-----------------------------------------------------------------------------
(* Properties of the submission engine and the grading ledger (under Spec) *)

SubmissionsOf(T, student_id, assignment_id) ==
    {x \in T : x.student_id = student_id /\ x.assignment_id = assignment_id}

\* the step in which request r commits an upload
CommitsUpload(r) ==
    /\ req[r].op = "submit" /\ req[r].pc = "files"
    /\ req'[r].pc = "done" /\ req'[r].code = 200

\* C1: at most one Submission row exists per (student, assignment) pair; an
\* upload committed for a pair that already has a row adds no Submission row,
\* keeps the file rows there were and attaches its new file rows to that row.
C1_OneSubmissionPerPair ==
    [][ /\ \A x, y \in db'.submissions :
             (x.student_id = y.student_id /\ x.assignment_id = y.assignment_id) => x = y
        /\ \A r \in Requests :
             CommitsUpload(r) =>
               LET before == SubmissionsOf(db.submissions, req[r].user_id,
                                           req[r].assignment_id)
                   after == SubmissionsOf(db'.submissions, req[r].user_id,
                                          req[r].assignment_id)
                   added == db'.submission_files \ db.submission_files
               IN  /\ before # {} => db'.submissions = db.submissions
                   /\ db.submission_files \subseteq db'.submission_files
                   /\ Cardinality(added) = req'[r].saved_count
                   /\ \A f \in added : \E x \in after : f.submission_id = x.id
      ]_vars

\* a second upload for a pair has committed and the pair's row holds the files
\* of both uploads
C1_Witness ==
    \E r \in Requests :
        /\ req[r].op = "submit" /\ req[r].pc = "done" /\ req[r].code = 200
        /\ ~req[r].first
        /\ req[r].saved_count > 0
        /\ \E x \in db.submissions :
             /\ x.student_id = req[r].user_id /\ x.assignment_id = req[r].assignment_id
             /\ Cardinality(FileRows(db.submission_files, x.id)) >= 2

\* an upload that began when the pair had no Submission row and was answered 200
FirstUploadDone(r) ==
    /\ req[r].op = "submit" /\ req[r].pc = "done" /\ req[r].code = 200
    /\ req[r].first

\* C2: when two uploads of one student for one assignment both began before the
\* pair had a Submission row, both are answered 200, exactly one Submission row
\* exists for the pair and the file rows of both uploads hang on that row.
C2_ConcurrentFirstUploads ==
    \A r1, r2 \in Requests :
        ( /\ r1 # r2
          /\ FirstUploadDone(r1) /\ FirstUploadDone(r2)
          /\ req[r1].user_id = req[r2].user_id
          /\ req[r1].assignment_id = req[r2].assignment_id )
        => LET rows == SubmissionsOf(db.submissions, req[r1].user_id,
                                     req[r1].assignment_id)
           IN  /\ Cardinality(rows) = 1
               /\ \A x \in rows :
                    /\ req[r1].submission_id = x.id
                    /\ req[r2].submission_id = x.id
                    /\ \A fp \in req[r1].written \cup req[r2].written :
                         \E f \in FileRows(db.submission_files, x.id) : f.file_path = fp
                    /\ Cardinality(FileRows(db.submission_files, x.id))
                         = req[r1].saved_count + req[r2].saved_count

\* two uploads for a pair without a row overlapped; the one that waited for the
\* write lock was still running when the other committed; both were answered 200
C2_Witness ==
    /\ FirstUploadDone("r1") /\ FirstUploadDone("r2")
    /\ req["r1"].user_id = req["r2"].user_id
    /\ req["r1"].assignment_id = req["r2"].assignment_id
    /\ req["r1"].saved_count > 0 /\ req["r2"].saved_count > 0

\* C3 (as the specification states it): an upload answered 400 because a file
\* exceeds the size limit leaves no file row and no stored bytes of that call.
C3_OversizedLeavesNothing ==
    \A r \in Requests :
        (req[r].op = "submit" /\ req[r].pc = "done" /\ req[r].code = 400
             /\ req[r].detail = "too big")
        => /\ req[r].written \cap disk = {}
           /\ \A f \in db.submission_files : f.file_path \notin req[r].written

\* the step in which request r finishes a grading call
CommitsGrade(r) ==
    /\ req[r].op = "grade" /\ req[r].pc \in {"write", "remove"}
    /\ req'[r].pc = "done" /\ req'[r].code = 200

StoredFor(D, student_id, assignment_id) ==
    {fp \in D : fp.student = student_id /\ fp.assignment = assignment_id}

GradesOf(T, student_id, subject_id) ==
    {g \in T : g.student_id = student_id /\ g.subject_id = subject_id}

\* C5: at most one Grade row exists per (student, subject) pair; when a grading
\* call finishes, the pair's row holds the values of that call, the rows of
\* other pairs are untouched, and a call for a pair that has a row adds none.
C5_OneGradePerPair ==
    [][ /\ \A g, h \in db'.grades :
             (g.student_id = h.student_id /\ g.subject_id = h.subject_id) => g = h
        /\ \A r \in Requests :
             CommitsGrade(r) =>
               LET before == GradesOf(db.grades, req[r].student, req[r].subject)
                   after == GradesOf(db'.grades, req[r].student, req[r].subject)
               IN  /\ Cardinality(after) = 1
                   /\ \A g \in after :
                        /\ g.grade = grade_value(req[r].status_input)
                        /\ g.status = req[r].status_input
                        /\ g.review = req[r].review
                        /\ g.graded_at = now
                   /\ db'.grades \ after = db.grades \ before
                   /\ before # {} => Cardinality(db'.grades) = Cardinality(db.grades)
      ]_vars

\* two grading calls with identical arguments have finished and the pair has
\* one Grade row
C5_Witness ==
    /\ req["r1"].op = "grade" /\ req["r1"].pc = "done" /\ req["r1"].code = 200
    /\ req["r2"].op = "grade" /\ req["r2"].pc = "done" /\ req["r2"].code = 200
    /\ req["r1"].student = req["r2"].student
    /\ req["r1"].subject = req["r2"].subject
    /\ req["r1"].status_input = req["r2"].status_input
    /\ req["r1"].review = req["r2"].review
    /\ Cardinality(GradesOf(db.grades, req["r1"].student, req["r1"].subject)) = 1

-----------------------------------------------------------------------------
(* Properties of the session manager (under SpecSession) *)

\* the session rows that make the token of header h valid now
LiveSessions(h) ==
    IF h.scheme = "Bearer"
    THEN {s \in sessions : s.token = h.token /\ now < s.expires_at}
    ELSE {}

SessionOps ==
    {"get_my_assignments", "get_my_grades", "get_my_teacher_assignments",
     "get_my_teacher_history", "get_submission_files"}

\* C6: a session check resolves a token to a (user_id, role) pair exactly when
\* a session row with that token exists and the time is strictly before its
\* expiry, and then to the pair of that row; a token at or past its expiry, an
\* unknown token and an empty token are answered 401.
C6_VerifySession ==
    [][ (resp' # resp /\ resp'.op \in SessionOps)
        => LET h == resp'.authorization
           IN  /\ (LiveSessions(h) = {}) <=> (resp'.code = 401)
               /\ (LiveSessions(h) = {}) <=> (resp'.session = Unauthorized)
               /\ LiveSessions(h) # {}
                    => \E s \in LiveSessions(h) : resp'.session = <<s.user_id, s.user_type>>
               /\ h.token = EmptyToken => resp'.code = 401
      ]_vars

\* a token was presented at the very second of its expiry and answered 401
C6_Witness ==
    /\ resp.op = "get_my_grades" /\ resp.code = 401
    /\ \E s \in sessions : s.token = resp.authorization.token /\ s.expires_at = now

RoleOf(op) ==
    IF op \in {"login", "submit", "get_my_assignments", "get_my_grades"} THEN "student"
    ELSE IF op = "download_file" THEN "any"
    ELSE "teacher"

\* C7: tokens are never shared: every session row is the one its login wrote
\* (a token never issued before, the user found in the table of the login's
\* role, that role), no two rows carry one token, and a role-gated endpoint
\* answers 200 only to a token whose row has the endpoint's role.
C7_TokenHasOneRole ==
    [][ /\ \A s1, s2 \in sessions' : s1.token = s2.token => s1 = s2
        /\ \A s \in sessions' \ sessions :
             /\ resp'.op \in {"login", "teacher_login"} /\ resp'.code = 200
             /\ s.token = resp'.token /\ s.token > issued
             /\ s.user_id = resp'.user_id
             /\ s.user_type = RoleOf(resp'.op)
             /\ s.expires_at = now + SessionWindow
             /\ IF resp'.op = "login"
                THEN \E st \in students : st.id = s.user_id /\ st.student_id = Strip(resp'.id)
                ELSE \E t \in teachers : t.id = s.user_id /\ t.teacher_id = Strip(resp'.id)
        /\ (resp' # resp /\ resp'.op \in SessionOps /\ resp'.code = 200)
             => /\ LiveSessions(resp'.authorization) # {}
                /\ \A s \in LiveSessions(resp'.authorization) :
                     s.user_type = RoleOf(resp'.op) /\ resp'.session = <<s.user_id, s.user_type>>
      ]_vars

\* a teacher-only endpoint answered 200 to a teacher's token while a student
\* with the same numeric key holds a session of their own
C7_Witness ==
    /\ resp.op = "get_my_teacher_history" /\ resp.code = 200
    /\ \E s, t \in sessions :
         /\ s.user_type = "student" /\ t.user_type = "teacher"
         /\ s.user_id = t.user_id
         /\ t.token = resp.authorization.token
         /\ s.token # t.token

-----------------------------------------------------------------------------
(* Properties of the gate in front of the privileged endpoints (under SpecGate) *)

\* what the claim asks of the answer code to header h on endpoint op
Gate(op, h, code) ==
    /\ LiveSessions(h) = {} <=> code = 401
    /\ (LiveSessions(h) # {} /\ RoleOf(op) # "any"
          /\ \A s \in LiveSessions(h) : s.user_type # RoleOf(op)) <=> code = 403

\* C8: every privileged endpoint answers 401 to a missing, unknown or expired
\* token and every role-gated endpoint answers 403 to a valid token of the other
\* role; such a call ends there and the tables of submissions, files and grades
\* and the stored files are as before.
C8_Gate ==
    [][ /\ \A r \in Requests :
             (Free(r) /\ req'[r] # req[r])
             => /\ Gate(req'[r].op, req'[r].authorization, req'[r].code)
                /\ req'[r].code \in {401, 403}
                     => req'[r].pc = "done" /\ db' = db /\ disk' = disk
        /\ (resp' # resp /\ resp'.op \in SessionOps \cup {"download_file"})
             => /\ Gate(resp'.op, resp'.authorization, resp'.code)
                /\ db' = db /\ disk' = disk
      ]_vars

\* a grading call made with a student's valid token was answered 403 while the
\* student's upload was stored, and an expired token was answered 401
C8_Witness ==
    /\ req["r1"].op = "grade" /\ req["r1"].pc = "done" /\ req["r1"].code = 403
    /\ db.submission_files # {} /\ disk # {}
    /\ resp.op \in SessionOps \cup {"download_file"} /\ resp.code = 401
    /\ \E s \in sessions : s.token = resp.authorization.token /\ s.expires_at <= now

-----------------------------------------------------------------------------
(* Properties of the logins (under SpecLogin) *)

\* the rows of the role's table that carry the identifier and the birth date typed
CredentialRows(op, id, password) ==
    IF op = "login"
    THEN {st.id : st \in {x \in students : x.student_id = Strip(id)
                              /\ x.birth_date = normalize_birth_date(password)}}
    ELSE {t.id : t \in {x \in teachers : x.teacher_id = Strip(id)
                            /\ x.birth_date = normalize_birth_date(password)}}

\* C9 (as the specification states it): a login with an identifier and a birth
\* date that are in the role's table is answered 200 with a token and the user
\* and has a session; a login with well-formed credentials that are not in the
\* table is answered 401 with one and the same detail and no token.
C9_PresentPairAuthenticates ==
    resp.op \in {"login", "teacher_login"}
    => LET rows == CredentialRows(resp.op, resp.id, resp.password)
       IN  /\ rows # {}
                => /\ resp.code = 200
                   /\ resp.user_id \in rows
                   /\ Cardinality({s \in sessions : s.token = resp.token}) = 1
           /\ (rows = {} /\ resp.code # 400)
                => /\ resp.code = 401 /\ resp.detail = "bad credentials"
                   /\ resp.token = EmptyToken

-----------------------------------------------------------------------------
(* Properties of the download endpoint (under SpecDownload) *)

\* C10: a download request for a path that contains ".." or starts with "/"
\* makes no filesystem call on the path; a caller with a valid token is
\* answered 400 "bad path", any other caller 401.
C10_PathRefusedFirst ==
    [][ (resp' # resp /\ resp'.op = "download_file"
           /\ (HasDotDot(resp'.path) \/ StartsWithSlash(resp'.path)))
        => /\ resp'.calls = <<>>
           /\ LiveSessions(resp'.authorization) # {}
                => resp'.code = 400 /\ resp'.detail = "bad path"
           /\ LiveSessions(resp'.authorization) = {} => resp'.code = 401
           /\ disk' = disk
      ]_vars

\* a logged-in caller asked for a stored file through a path with ".." in it
\* and was refused before the file was looked at
C10_Witness ==
    /\ resp.op = "download_file" /\ resp.code = 400 /\ resp.calls = <<>>
    /\ LiveSessions(resp.authorization) # {}
    /\ HasDotDot(resp.path)
    /\ IsFile(resp.path)

-----------------------------------------------------------------------------
(* Ownership of files (under SpecOwnership) *)

\* every file row of tables T hangs on exactly one submission row, and its
\* path lies in the directory of that row's student and assignment
OwnedByOne(T) ==
    \A f \in T.submission_files :
        /\ Cardinality({x \in T.submissions : x.id = f.submission_id}) = 1
        /\ \A x \in T.submissions :
             x.id = f.submission_id
             => /\ f.file_path.student = x.student_id
                /\ f.file_path.assignment = x.assignment_id

\* C11: in every state, committed or inside an open upload transaction, each
\* SubmissionFile row belongs to exactly one Submission and its stored path
\* lies under the directory of that Submission's student and assignment, so
\* no file row or path hangs on a Submission of another student.
C11_FilesOwnedByOneSubmission ==
    /\ OwnedByOne(db)
    /\ \A r \in Requests :
         (req[r].op = "submit" /\ req[r].pc = "files") => OwnedByOne(req[r].tx)

\* two students have each uploaded a file to the same assignment
C11_Witness ==
    \E f, g \in db.submission_files :
        /\ f.file_path.student # g.file_path.student
        /\ f.file_path.assignment = g.file_path.assignment
        /\ f.submission_id # g.submission_id

-----------------------------------------------------------------------------
(* The life of one submission (under SpecJourney) *)

\* the step in which an endpoint that answers in one step answers 200
Answers(op) == resp' # resp /\ resp'.op = op /\ resp'.code = 200

\* C12: end to end.  A first upload leaves a Submission with status NULL and a
\* file row, and assignments/me shows for every assignment the status of the
\* caller's Submission (NULL without one); a grading "zachet" leaves the Grade
\* row of the subject with grade 100 and that label, and grades/me shows the
\* caller's Grade rows; a grading "ne zachteno" leaves the Submission without
\* file rows; and a Submission gains file rows only when an upload of its
\* student for its assignment commits.
C12_EndToEnd ==
    [][ /\ \A r \in Requests :
             /\ (CommitsUpload(r) /\ req[r].first)
                => \A x \in SubmissionsOf(db'.submissions, req[r].user_id,
                                          req[r].assignment_id) :
                     /\ x.status = Null
                     /\ FileRows(db'.submission_files, x.id) # {}
             /\ (CommitsGrade(r) /\ req[r].status_input = L_zachet)
                => \E g \in db'.grades :
                     /\ g.student_id = req[r].student /\ g.subject_id = req[r].subject
                     /\ g.grade = 100 /\ g.status = L_zachet
             /\ (CommitsGrade(r) /\ req[r].status_input = L_ne_zachteno)
                => \A x \in SubmissionsOf(db'.submissions, req[r].student,
                                          req[r].assignment_id) :
                     FileRows(db'.submission_files, x.id) = {}
        /\ Answers("get_my_assignments")
             => \A a \in assignments :
                  LET mine == SubmissionsOf(db.submissions, resp'.session[1], a.id)
                      shown == {e \in resp'.result : e.id = a.id}
                  IN  /\ Cardinality(shown) = 1
                      /\ \A e \in shown :
                           IF mine = {} THEN e.status = Null
                           ELSE \E x \in mine : e.status = x.status /\ e.review = x.review
        /\ Answers("get_my_grades")
             => /\ \A g \in db.grades :
                     g.student_id = resp'.session[1]
                     => \E e \in resp'.result :
                          /\ e.subject = SubjectName(g.subject_id)
                          /\ e.grade = g.grade /\ e.status = g.status
                /\ \A e \in resp'.result :
                     \E g \in db.grades :
                          /\ g.student_id = resp'.session[1]
                          /\ e.subject = SubjectName(g.subject_id)
                          /\ e.grade = g.grade /\ e.status = g.status
        /\ \A x \in db'.submissions :
             ~(FileRows(db'.submission_files, x.id) \subseteq FileRows(db.submission_files, x.id))
             => \E r \in Requests :
                  /\ CommitsUpload(r)
                  /\ req[r].user_id = x.student_id
                  /\ req[r].assignment_id = x.assignment_id
      ]_vars

\* grades/me showed grade 100 with the label "zachet"; the teacher has since
\* graded "ne zachteno", which emptied the submission, and a fresh upload has
\* attached a file to it again
C12_Witness ==
    /\ resp.op = "get_my_grades" /\ resp.code = 200
    /\ \E e \in resp.result : e.grade = 100 /\ e.status = L_zachet
    /\ \E g \in db.grades : g.status = L_ne_zachteno /\ g.grade = NullInt
    /\ \E x \in db.submissions :
         /\ x.status = "rejected"
         /\ FileRows(db.submission_files, x.id) # {}

\* a step of the handler that serves request r
StepOf(r) == req'[r] # req[r]

\* C13: a SubmissionFile row or a stored file disappears only in a step of a
\* grading whose label is exactly "ne zachteno"; no step of an upload and no
\* step of a grading with any other label (the other rejecting labels and
\* unrecognised ones included) removes a row or a stored file.
C13_OnlyRejectionDeletes ==
    [][ /\ (~(db.submission_files \subseteq db'.submission_files) \/ ~(disk \subseteq disk'))
             => \E r \in Requests :
                  /\ StepOf(r)
                  /\ req[r].op = "grade"
                  /\ req[r].status_input = L_ne_zachteno
        /\ \A r \in Requests :
             /\ (StepOf(r) /\ req'[r].op = "grade" /\ req'[r].status_input # L_ne_zachteno)
                => /\ db.submission_files \subseteq db'.submission_files
                   /\ disk \subseteq disk'
                   /\ req'[r].pc \notin {"list", "remove"}
             /\ (StepOf(r) /\ req'[r].op = "submit")
                => /\ db.submission_files \subseteq db'.submission_files
                   /\ disk \subseteq disk'
      ]_vars

\* a grading with the rejecting label "ne dopuschen" has been answered and the
\* submission it rejected still has its file row and its stored file
C13_Witness ==
    \E r \in Requests :
        /\ req[r].op = "grade" /\ req[r].pc = "done" /\ req[r].code = 200
        /\ req[r].status_input = L_ne_dopuschen
        /\ \E x \in db.submissions :
             /\ x.student_id = req[r].student /\ x.status = "rejected"
             /\ \E f \in FileRows(db.submission_files, x.id) : f.file_path \in disk

\* C14: an upload for a pair that already has a Submission row leaves the
\* status and the review of that row as they were, in every step of the upload
\* and when it commits.
C14_ResubmitKeepsStatus ==
    [][ \A r \in Requests :
          (StepOf(r) /\ req'[r].op = "submit")
          => \A x \in SubmissionsOf(db.submissions, req'[r].user_id, req'[r].assignment_id) :
               \A y \in SubmissionsOf(db'.submissions, req'[r].user_id, req'[r].assignment_id) :
                    y.status = x.status /\ y.review = x.review
      ]_vars

\* an upload to a submission that the teacher had rejected with a review has
\* committed: the row has files again and is still rejected with that review
C14_Witness ==
    \E r \in Requests :
        /\ req[r].op = "submit" /\ req[r].pc = "done" /\ req[r].code = 200
        /\ ~req[r].first
        /\ \E x \in SubmissionsOf(db.submissions, req[r].user_id, req[r].assignment_id) :
             /\ x.status = "rejected" /\ x.review = Review_redo
             /\ FileRows(db.submission_files, x.id) # {}

\* C15: a grading that finishes leaves the Submission of its (student,
\* assignment) with the status the label maps to ("zachet", "sdano" to approved;
\* "ne zachteno", "ne dopuschen", "ne sdano" to rejected; "prinyat na
\* rassmotrenie" to in_review; anything else to submitted) and with the given
\* review, and leaves every other Submission as it was; the status of a
\* Submission is always NULL or one of these four values.
C15_StatusTable ==
    [][ /\ \A x \in db'.submissions :
             x.status \in {Null, "approved", "rejected", "in_review", "submitted"}
        /\ \A r \in Requests :
             CommitsGrade(r) =>
               LET label == req[r].status_input
               IN  \A x \in db'.submissions :
                     IF x.student_id = req[r].student /\ x.assignment_id = req[r].assignment_id
                     THEN /\ x.review = req[r].review
                          /\ label = L_zachet => x.status = "approved"
                          /\ label = L_sdano => x.status = "approved"
                          /\ label = L_ne_zachteno => x.status = "rejected"
                          /\ label = L_ne_dopuschen => x.status = "rejected"
                          /\ label = L_ne_sdano => x.status = "rejected"
                          /\ label = L_prinyat => x.status = "in_review"
                          /\ label \notin StatusLabels => x.status = "submitted"
                          /\ \E y \in db.submissions : y.id = x.id
                     ELSE x \in db.submissions
      ]_vars

\* a grading with a label outside the table has been answered and the
\* submission it graded is "submitted"
C15_Witness ==
    \E r \in Requests :
        /\ req[r].op = "grade" /\ req[r].pc = "done" /\ req[r].code = 200
        /\ req[r].status_input = L_otlichno
        /\ \E x \in SubmissionsOf(db.submissions, req[r].student, req[r].assignment_id) :
             x.status = "submitted"

\* C16: a grading that finishes leaves the Grade row of its (student, subject)
\* with grade 100 exactly when the label is "zachet" or "sdano" and with no
\* grade otherwise, with the raw label as status and with the given review; a
\* row that held 100 holds no grade after a grading with any other label.
C16_GradeRow ==
    [][ \A r \in Requests :
          CommitsGrade(r) =>
            LET approving == req[r].status_input \in {L_zachet, L_sdano}
                after == GradesOf(db'.grades, req[r].student, req[r].subject)
            IN  /\ after # {}
                /\ \A g \in after :
                     /\ g.grade = 100 <=> approving
                     /\ g.grade = NullInt <=> ~approving
                     /\ g.status = req[r].status_input
                     /\ g.review = req[r].review
      ]_vars

\* grades/me showed grade 100 under the label "sdano"; a later grading with a
\* label that does not approve has been answered and the row holds no grade
C16_Witness ==
    /\ resp.op = "get_my_grades" /\ resp.code = 200
    /\ \E e \in resp.result : e.grade = 100 /\ e.status = L_sdano
    /\ \E r \in Requests :
         /\ req[r].op = "grade" /\ req[r].pc = "done" /\ req[r].code = 200
         /\ req[r].status_input \notin {L_zachet, L_sdano}
         /\ \E g \in GradesOf(db.grades, req[r].student, req[r].subject) :
              g.grade = NullInt /\ g.status = req[r].status_input

\* C19: a grading with the label "ne zachteno" succeeds although the deletion
\* of a stored file fails: the failure does not end the call, the call is
\* answered 200, and when it finishes every SubmissionFile row of the
\* Submission is removed, the Submission is rejected with the given review and
\* the Grade row of the pair holds the label and the review.
C19_FailedDeletionSwallowed ==
    [][ \A r \in Requests :
          /\ (StepOf(r) /\ req[r].op = "grade" /\ req[r].pc = "remove")
             => \/ req'[r].pc = "remove"
                \/ req'[r].pc = "done" /\ req'[r].code = 200
          /\ (CommitsGrade(r) /\ req[r].failed # {})
             => /\ FileRows(db'.submission_files, req[r].submission_id) = {}
                /\ \A x \in db'.submissions :
                     x.id = req[r].submission_id
                     => x.status = "rejected" /\ x.review = req[r].review
                /\ \E x \in db'.submissions : x.id = req[r].submission_id
                /\ \E g \in db'.grades :
                     /\ g.student_id = req[r].student /\ g.subject_id = req[r].subject
                     /\ g.status = L_ne_zachteno /\ g.review = req[r].review
                     /\ g.grade = NullInt
      ]_vars

\* a grading "ne zachteno" with a review was answered 200 after the deletion
\* of the stored file failed: the file is still stored, the submission has no
\* file row and is rejected with the review, and the Grade row holds the label
C19_Witness ==
    \E r \in Requests :
        /\ req[r].op = "grade" /\ req[r].pc = "done" /\ req[r].code = 200
        /\ req[r].failed # {} /\ req[r].failed \subseteq disk
        /\ req[r].review = Review_redo
        /\ \E x \in db.submissions :
             /\ x.id = req[r].submission_id
             /\ x.status = "rejected" /\ x.review = Review_redo
             /\ FileRows(db.submission_files, x.id) = {}
        /\ \E g \in GradesOf(db.grades, req[r].student, req[r].subject) :
             g.status = L_ne_zachteno /\ g.review = Review_redo

-----------------------------------------------------------------------------
(* Refused arguments (under SpecReject) *)

\* the step in which the handler of operation op, called by a user of the
\* given role, reads the arguments of request r
Reads(r, op, role) ==
    /\ Free(r) /\ StepOf(r)
    /\ req'[r].op = op
    /\ \E s \in LiveSessions(req'[r].authorization) : s.user_type = role

\* the request ends in this step with the given code and nothing is changed
EndsUnchanged(r, code) ==
    /\ req'[r].pc = "done" /\ req'[r].code = code
    /\ req'[r].tx = EmptyDb
    /\ db' = db /\ disk' = disk

\* C17: a grading by a teacher for a well-formed student id or a subject name
\* that no row has is answered 404, and only such a grading is; it deletes no
\* file (not even under the label "ne zachteno"), updates no Submission and
\* writes no Grade row.
C17_GradeNotFound ==
    [][ \A r \in Requests :
          (Reads(r, "grade", "teacher") /\ validate_id(req'[r].student_id) # Invalid)
          => LET known_student ==
                     \E st \in students : st.student_id = validate_id(req'[r].student_id)
                 known_subject ==
                     \E sj \in subjects : sj.name = req'[r].subject_name
             IN  /\ (~known_student \/ ~known_subject) <=> req'[r].code = 404
                 /\ (~known_student \/ ~known_subject) => EndsUnchanged(r, 404)
      ]_vars

\* a grading "ne zachteno" of a student who has an uploaded file, under a
\* subject name that does not exist, was answered 404: the file row and the
\* stored file are there, the Submission has no status, no Grade row exists
C17_Witness ==
    \E r \in Requests :
        /\ req[r].op = "grade" /\ req[r].pc = "done" /\ req[r].code = 404
        /\ req[r].subject_name = Subject_unknown
        /\ req[r].student_id = Str_2023_IS_042
        /\ req[r].status_input = L_ne_zachteno
        /\ db.grades = {}
        /\ \E x \in db.submissions :
             /\ x.status = Null
             /\ \E f \in FileRows(db.submission_files, x.id) : f.file_path \in disk

\* C18: an upload by a student is answered 400 when the file list is empty or
\* every entry has an empty name, and 404 when, with a file chosen, no
\* assignment has the id; in both cases no Submission row, no file row and no
\* stored file is added.
C18_SubmitRefused ==
    [][ \A r \in Requests :
          Reads(r, "submit", "student")
          => LET files == req'[r].files
                 none == Len(files) = 0 \/ \A i \in 1..Len(files) : files[i].filename = <<>>
                 known == \E a \in assignments : a.id = req'[r].assignment_id
             IN  /\ none => EndsUnchanged(r, 400)
                 /\ (~none /\ ~known) => EndsUnchanged(r, 404)
                 /\ (~none /\ known) => req'[r].pc # "done"
      ]_vars

\* an upload of a named file to an assignment id that does not exist was
\* answered 404 and the tables and the storage are empty
C18_Witness ==
    \E r \in Requests :
        /\ req[r].op = "submit" /\ req[r].pc = "done" /\ req[r].code = 404
        /\ req[r].assignment_id = UnknownAssignment
        /\ req[r].files = <<File(Name_a, 1)>>
        /\ db = EmptyDb /\ disk = {}

-----------------------------------------------------------------------------
(* The end of a session (under SpecExpiry) *)

\* C20: expiry is the only way a session ends.  Whatever runs (a login of the
\* same or of another user, an endpoint that verifies a token, an upload, a
\* grading, the purge inside them, the passing of time), a session that has not
\* reached its expiry stays in the table with the expiry it was given; a row
\* that appears carries a token no row had and expires one session window
\* after the step; no token's expiry ever changes; and a token presented before
\* its expiry is never answered 401.
C20_ExpiryOnly ==
    [][ /\ \A s \in sessions : now < s.expires_at => s \in sessions'
        /\ \A s \in sessions' :
             s \notin sessions
             => /\ s.expires_at = now + SessionWindow
                /\ \A x \in sessions : x.token # s.token
        /\ \A s \in sessions' : \A x \in sessions :
             x.token = s.token => x.expires_at = s.expires_at
        /\ (resp' # resp /\ resp'.op \in SessionOps)
             => (LiveSessions(resp'.authorization) # {} => resp'.code # 401)
        /\ \A r \in Requests :
             (Free(r) /\ StepOf(r))
             => (LiveSessions(req'[r].authorization) # {} => req'[r].code # 401)
      ]_vars

\* one second after it was issued, and after a later login, an upload and a
\* grading, the first token is still in the table with its expiry and
\* grades/me has just accepted it
C20_Witness ==
    /\ now > 0
    /\ resp.op = "get_my_grades" /\ resp.code = 200
    /\ \E s, x \in sessions :
         /\ s.token = resp.authorization.token
         /\ s.expires_at = SessionWindow
         /\ x.expires_at > s.expires_at
    /\ db.grades # {}
    /\ db.submissions # {}

-----------------------------------------------------------------------------
(* The purge of expired sessions (under SpecSession) *)

\* the step in which a login creates a session
CreatesSession == issued' # issued

\* the step in which an endpoint checks a non-empty bearer token
ChecksToken ==
    /\ issued' = issued
    /\ resp' # resp \/ sessions' # sessions
    /\ resp'.op \in SessionOps
    /\ resp'.authorization.scheme = "Bearer"
    /\ resp'.authorization.token # EmptyToken

\* C21: right after a session is created and right after a non-empty token is
\* checked, the sessions table holds no row whose expiry is before the current
\* time, and every row of before whose expiry is not before the current time
\* (every valid row among them) is still there; no other step removes a row.
C21_PurgeOnWriteAndCheck ==
    [][ /\ (CreatesSession \/ ChecksToken)
             => /\ \A s \in sessions' : ~(s.expires_at < now)
                /\ \A s \in sessions : ~(s.expires_at < now) => s \in sessions'
        /\ ~(sessions \subseteq sessions') => (CreatesSession \/ ChecksToken)
      ]_vars

\* a token check has just purged an expired row and kept a valid one
C21_Witness ==
    /\ resp.op \in SessionOps
    /\ resp.authorization.scheme = "Bearer"
    /\ Cardinality(sessions) < issued
    /\ \E s \in sessions : now < s.expires_at
    /\ \A s \in sessions : ~(s.expires_at < now)
    /\ now > SessionWindow

-----------------------------------------------------------------------------
(* Stored paths (under SpecCollide) *)

\* C22 (as the specification states it): every file an upload accepts is
\* stored under a path that no stored file and no file row has yet, so no two
\* SubmissionFile rows share a path and no accepted file overwrites the bytes
\* of a stored one.
C22_NoCollision ==
    [][ \A r \in Requests :
          ( /\ req[r].op = "submit" /\ req[r].pc = "files"
            /\ req'[r].saved_count > req[r].saved_count )
          => \A f \in req'[r].tx.submission_files \ req[r].tx.submission_files :
                /\ f.file_path \notin disk
                /\ \A g \in req[r].tx.submission_files : g.file_path # f.file_path
      ]_vars

-----------------------------------------------------------------------------
(* Containment of downloads (under SpecLinks) *)

\* C23 (as the specification states it): a download by a logged-in caller of a
\* path that resolves outside the storage root is refused and never answered
\* 404 or served, whether or not its target is a regular file; 404 is
\* answered only for a path that resolves inside the root and is not a
\* regular file.
C23_ContainmentBeforeExistence ==
    [][ ( /\ resp' # resp /\ resp'.op = "download_file"
          /\ LiveSessions(resp'.authorization) # {} )
        => /\ resp'.fs.resolved = Outside => resp'.code = 400
           /\ resp'.code = 404
                => /\ resp'.fs.resolved # Outside
                   /\ ~resp'.fs.is_file
      ]_vars

-----------------------------------------------------------------------------
(* The pending-review queue (under SpecQueue) *)

\* C24 (as the specification states it): the queue a teacher is shown holds,
\* for every Submission whose status is not approved (a never-graded one
\* included) and whose assignment belongs to a subject of that teacher, an
\* entry with that assignment and that student.
C24_QueueHoldsUnapproved ==
    [][ Answers("get_my_teacher_assignments")
        => \A x \in db.submissions :
             \A a \in assignments, st \in students :
               ( /\ x.status # "approved"
                 /\ a.id = x.assignment_id /\ st.id = x.student_id
                 /\ \E l \in subject_teachers :
                      l.subject_id = a.subject_id /\ l.teacher_id = resp'.session[1] )
               => \E e \in resp'.result :
                    e.assignment_id = a.id /\ e.student_id = st.student_id
      ]_vars

\* C25: a grading of an existing student under an existing subject that
\* finishes always leaves the Grade row of (student, subject) holding its
\* label, whether or not the student has a Submission for the assignment id
\* and whether or not an assignment has that id or belongs to the subject;
\* it never creates a Submission.
C25_GradeWithoutSubmission ==
    [][ \A r \in Requests :
          /\ ( /\ Reads(r, "grade", "teacher")
               /\ \E st \in students : st.student_id = validate_id(req'[r].student_id)
               /\ \E sj \in subjects : sj.name = req'[r].subject_name )
             => /\ req'[r].pc # "done"
                /\ \E st \in students : st.id = req'[r].student
                /\ \E sj \in subjects : sj.id = req'[r].subject
          /\ CommitsGrade(r)
             => /\ \E g \in db'.grades :
                     /\ g.student_id = req[r].student /\ g.subject_id = req[r].subject
                     /\ g.status = req[r].status_input
                /\ {x.id : x \in db'.submissions} = {x.id : x \in db.submissions}
      ]_vars

\* a grading "zachet" under an assignment id that no assignment has was
\* answered 200: the student holds grade 100 in the subject and has no
\* Submission at all
C25_Witness ==
    \E r \in Requests :
        /\ req[r].op = "grade" /\ req[r].pc = "done" /\ req[r].code = 200
        /\ req[r].assignment_id = UnknownAssignment
        /\ db.submissions = {}
        /\ \E g \in db.grades :
             /\ g.student_id = req[r].student /\ g.subject_id = req[r].subject
             /\ g.grade = 100
====
